---------------------------- MODULE Spec2Model ----------------------------
(***************************************************************************)
(* Model of the Wikipedia search demo server (src/main.go): the request    *)
(* logging middleware, the route table, the index and search handlers,     *)
(* the error adapter and the pagination model.                             *)
(*                                                                         *)
(* Go's int is a fixed-width two's complement integer and float64 has a    *)
(* 53-bit significand.  TLC's own integers are 32 bits wide, so a Go int   *)
(* is kept as a little-endian sequence of 16-bit limbs and every           *)
(* arithmetic step of the source is carried out limb by limb, wrapping     *)
(* exactly where the machine wraps.                                        *)
(***************************************************************************)
EXTENDS Integers, Sequences, FiniteSets, TLC

(***************************************************************************)
(* Limb arithmetic.  A number is a sequence of limbs, least significant    *)
(* first, each in 0..Base-1.  The operators work on any length; a result   *)
(* has the length of its first argument and drops the carry out of the     *)
(* top limb (arithmetic modulo Base^Len).                                  *)
(***************************************************************************)
Base == 2^16

\* Width of Go's int in limbs: 64 bits on the amd64/arm64 builds.
IntLimbs == 4

\* Limbs used for exact (never wrapping) arithmetic on the same values.
WideLimbs == IntLimbs + 2

\* Significand width of float64.
MantBits == 53

\* The limbs of a small natural n (n < 2^31), as a number of len limbs.
Limbs(n, len) ==
    [i \in 1..len |-> IF i = 1 THEN n % Base
                      ELSE IF i = 2 THEN (n \div Base) % Base
                      ELSE 0]

RECURSIVE AddCarry(_, _, _, _)
AddCarry(a, b, i, c) ==
    IF i > Len(a) THEN <<>>
    ELSE LET s == a[i] + b[i] + c
         IN  <<s % Base>> \o AddCarry(a, b, i + 1, s \div Base)

Add(a, b) == AddCarry(a, b, 1, 0)

Not(a) == [i \in 1..Len(a) |-> Base - 1 - a[i]]

Neg(a) == Add(Not(a), Limbs(1, Len(a)))

Sub(a, b) == Add(a, Neg(b))

RECURSIVE MulCarry(_, _, _, _)
MulCarry(a, k, i, c) ==
    IF i > Len(a) THEN <<>>
    ELSE LET s == a[i] * k + c
         IN  <<s % Base>> \o MulCarry(a, k, i + 1, s \div Base)

\* a * k for a small natural k (k < 2^14).
MulSmall(a, k) == MulCarry(a, k, 1, 0)

RECURSIVE DivStep(_, _, _, _)
DivStep(a, d, i, rem) ==
    IF i = 0 THEN [q |-> <<>>, r |-> rem]
    ELSE LET cur  == rem * Base + a[i]
             rest == DivStep(a, d, i - 1, cur % d)
         IN  [q |-> rest.q \o <<cur \div d>>, r |-> rest.r]

\* Quotient and remainder of the natural a by a small natural d (d < 2^14).
DivSmall(a, d) == DivStep(a, d, Len(a), 0)

IsZero(a) == \A i \in 1..Len(a) : a[i] = 0

RECURSIVE CmpFrom(_, _, _)
CmpFrom(a, b, i) ==
    IF i = 0 THEN 0
    ELSE IF a[i] < b[i] THEN -1
    ELSE IF a[i] > b[i] THEN 1
    ELSE CmpFrom(a, b, i - 1)

\* Unsigned comparison of two numbers of the same length: -1, 0 or 1.
Cmp(a, b) == CmpFrom(a, b, Len(a))

RECURSIVE SmallBitLen(_)
SmallBitLen(n) == IF n = 0 THEN 0 ELSE 1 + SmallBitLen(n \div 2)

RECURSIVE BitLenFrom(_, _)
BitLenFrom(a, i) ==
    IF i = 0 THEN 0
    ELSE IF a[i] # 0 THEN (i - 1) * 16 + SmallBitLen(a[i])
    ELSE BitLenFrom(a, i - 1)

\* Number of significant bits of the natural a.
BitLen(a) == BitLenFrom(a, Len(a))

\* a * 2^k, in steps of at most 14 bits.
RECURSIVE ShiftLeft(_, _)
ShiftLeft(a, k) ==
    IF k = 0 THEN a
    ELSE IF k <= 14 THEN MulSmall(a, 2^k)
    ELSE ShiftLeft(MulSmall(a, 2^14), k - 14)

\* a / 2^k as quotient and a flag telling whether any bit was shifted out.
RECURSIVE ShiftRight(_, _)
ShiftRight(a, k) ==
    IF k = 0 THEN [q |-> a, inexact |-> FALSE]
    ELSE LET step == IF k <= 14 THEN k ELSE 14
             d    == DivSmall(a, 2^step)
             rest == ShiftRight(d.q, k - step)
         IN  [q |-> rest.q, inexact |-> rest.inexact \/ d.r # 0]

\* a / d rounded to the nearest natural, ties to even (IEEE 754 default).
RoundDiv(a, d) ==
    LET qr == DivSmall(a, d)
        up == \/ 2 * qr.r > d
              \/ 2 * qr.r = d /\ qr.q[1] % 2 = 1
    IN  IF up THEN Add(qr.q, Limbs(1, Len(a))) ELSE qr.q

(***************************************************************************)
(* Go's int: IntLimbs limbs read as a two's complement number.             *)
(***************************************************************************)
GoInt(n) == IF n >= 0 THEN Limbs(n, IntLimbs) ELSE Neg(Limbs(-n, IntLimbs))

IsNeg(a) == a[Len(a)] >= Base \div 2

\* Signed a < b.
Less(a, b) ==
    IF IsNeg(a) # IsNeg(b) THEN IsNeg(a) ELSE Cmp(a, b) < 0

\* The same value as an exact integer: sign-extended to WideLimbs limbs.
Wide(a) ==
    a \o [i \in 1..(WideLimbs - Len(a)) |-> IF IsNeg(a) THEN Base - 1 ELSE 0]

\* |a| as a natural of WideLimbs limbs.
Magnitude(a) == IF IsNeg(a) THEN Neg(Wide(a)) ELSE Wide(a)

\* The int whose value is the wide number w (w within int's range).
Narrow(w) == SubSeq(w, 1, IntLimbs)

MaxInt == [i \in 1..IntLimbs |-> IF i = IntLimbs THEN Base \div 2 - 1 ELSE Base - 1]

MinInt == [i \in 1..IntLimbs |-> IF i = IntLimbs THEN Base \div 2 ELSE 0]

(***************************************************************************)
(* strconv.Atoi.  A string is a sequence of one-character strings.         *)
(***************************************************************************)
Digits == {"0", "1", "2", "3", "4", "5", "6", "7", "8", "9"}

DigitVal(c) ==
    CASE c = "0" -> 0 [] c = "1" -> 1 [] c = "2" -> 2 [] c = "3" -> 3
      [] c = "4" -> 4 [] c = "5" -> 5 [] c = "6" -> 6 [] c = "7" -> 7
      [] c = "8" -> 8 [] c = "9" -> 9

\* n = n*10 + digit over the digits s[i..], exact in WideLimbs limbs.
RECURSIVE ParseDigits(_, _, _)
ParseDigits(s, i, acc) ==
    IF i > Len(s) THEN acc
    ELSE ParseDigits(s, i + 1,
                     Add(MulSmall(acc, 10), Limbs(DigitVal(s[i]), WideLimbs)))

\* Atoi(s): [err |-> "" , val |-> int] or [err |-> "syntax" | "range"].
\* An optional sign, then at least one decimal digit and nothing else; a
\* value outside int's range is a range error.
Atoi(s) ==
    LET signed == Len(s) > 0 /\ s[1] \in {"-", "+"}
        neg    == Len(s) > 0 /\ s[1] = "-"
        body   == IF signed THEN Tail(s) ELSE s
        mag    == ParseDigits(body, 1, Limbs(0, WideLimbs))
        cutoff == Magnitude(MinInt)
    IN  IF Len(body) = 0 \/ \E i \in 1..Len(body) : body[i] \notin Digits
        THEN [err |-> "syntax", val |-> GoInt(0)]
        ELSE IF neg /\ Cmp(mag, cutoff) > 0
        THEN [err |-> "range", val |-> MinInt]
        ELSE IF ~neg /\ Cmp(mag, cutoff) >= 0
        THEN [err |-> "range", val |-> MaxInt]
        ELSE [err |-> "", val |-> IF neg THEN Neg(Narrow(mag)) ELSE Narrow(mag)]

(***************************************************************************)
(* float64 arithmetic on naturals of WideLimbs limbs.                      *)
(***************************************************************************)
\* float64(n): n rounded to MantBits significant bits, ties to even.
Float64(n) ==
    LET drop == BitLen(n) - MantBits
    IN  IF drop <= 0 THEN n ELSE ShiftLeft(RoundDiv(n, 2^drop), drop)

\* Least j with n * 2^j >= d, for a natural n > 0.
RECURSIVE LeadShift(_, _)
LeadShift(n, d) ==
    IF Cmp(n, Limbs(d, Len(n))) >= 0 THEN 0 ELSE 1 + LeadShift(MulSmall(n, 2), d)

\* The float64 quotient n / d of a float64 n >= 0 by a small d, as its whole
\* part and whether a fractional part is left.  The exact quotient lies in
\* [2^e, 2^(e+1)); it is rounded to a multiple of 2^(e - MantBits + 1).
FloatQuot(n, d) ==
    IF IsZero(n) THEN [whole |-> n, frac |-> FALSE]
    ELSE LET q0 == DivSmall(n, d).q
             e  == IF IsZero(q0) THEN 0 - LeadShift(n, d) ELSE BitLen(q0) - 1
             f  == MantBits - 1 - e
         IN  IF f >= 0
             THEN LET sr == ShiftRight(RoundDiv(ShiftLeft(n, f), d), f)
                  IN  [whole |-> sr.q, frac |-> sr.inexact]
             ELSE [whole |-> ShiftLeft(RoundDiv(n, d * 2^(0 - f)), 0 - f),
                   frac  |-> FALSE]

\* int(math.Ceil(float64(a) / float64(d))) for an int a and a small d > 0.
CeilDiv(a, d) ==
    LET fq == FloatQuot(Float64(Magnitude(a)), d)
    IN  IF IsNeg(a) THEN Neg(Narrow(fq.whole))
        ELSE IF fq.frac THEN Add(Narrow(fq.whole), GoInt(1))
        ELSE Narrow(fq.whole)

(***************************************************************************)
(* Bounds of the model and the inputs drawn from them.                     *)
(***************************************************************************)
\* Requests in flight at once.
NumRequests == 2

\* Largest small page number and hit count the pagination runs enumerate.
MaxPage == 5
MaxHits == 85

Requests == 1..NumRequests

\* Decimal text of a small natural, as strconv.Atoi's caller would send it.
RECURSIVE Itoa(_)
Itoa(n) ==
    LET d == <<"0", "1", "2", "3", "4", "5", "6", "7", "8", "9">>[(n % 10) + 1]
    IN  IF n < 10 THEN <<d>> ELSE Itoa(n \div 10) \o <<d>>

\* URL paths, split at "/": "/" is <<"">>, "/assets/app.css" is
\* <<"assets", "app.css">>.
Root == <<"">>
Paths == {Root, <<"foo">>, <<"search">>, <<"assets">>, <<"assets", "app.css">>}

\* Values of the page parameter; <<>> is the absent parameter.
SmallPages == {<<"2">>, <<"a", "b", "c">>}

EdgePages ==
    { <<"0">>, <<"-", "1">>, <<"+", "3">>, <<"1", "x">>, <<"-">>,
      \* (MaxInt \div 20) + 1 and the page after it
      <<"4","6","1","1","6","8","6","0","1","8","4","2","7","3","8","7","9","1">>,
      <<"4","6","1","1","6","8","6","0","1","8","4","2","7","3","8","7","9","2">>,
      \* MaxInt, MaxInt + 1, MinInt, MinInt - 1
      <<"9","2","2","3","3","7","2","0","3","6","8","5","4","7","7","5","8","0","7">>,
      <<"9","2","2","3","3","7","2","0","3","6","8","5","4","7","7","5","8","0","8">>,
      <<"-","9","2","2","3","3","7","2","0","3","6","8","5","4","7","7","5","8","0","8">>,
      <<"-","9","2","2","3","3","7","2","0","3","6","8","5","4","7","7","5","8","0","9">> }

AllPages == {<<>>} \cup {Itoa(n) : n \in 1..MaxPage} \cup EdgePages

\* totalhits values of the upstream reply, as Go ints.
SmallHits == {GoInt(50)}

\* 2^53 = 9007199254740992 as a Go int, and hit counts around and above it.
TwoTo53 == [i \in 1..IntLimbs |-> IF i = 4 THEN 32 ELSE 0]

EdgeHits ==
    { GoInt(0 - 1), GoInt(0 - 45), TwoTo53, Add(TwoTo53, GoInt(1)),
      Add(TwoTo53, GoInt(8)), Add(TwoTo53, GoInt(9)), Add(TwoTo53, GoInt(29)),
      MaxInt, MinInt }

AllHits == {GoInt(n) : n \in 0..MaxHits} \cup EdgeHits

\* Outcomes of the GET to the Wikipedia API.
Replies(hits) ==
    {[kind |-> "transport", code |-> 0, totalhits |-> GoInt(0)],
     [kind |-> "status", code |-> 503, totalhits |-> GoInt(0)],
     [kind |-> "json", code |-> 200, totalhits |-> GoInt(0)]}
    \cup {[kind |-> "ok", code |-> 200, totalhits |-> h] : h \in hits}

(***************************************************************************)
(* State.  Per request r:                                                  *)
(*   pc[r]        "idle", "handler" (the middleware has called             *)
(*                next.ServeHTTP), "upstream" (searchHandler waits for     *)
(*                the Wikipedia API), "done" (the middleware returned),    *)
(*                "crashed" (the panic left the middleware)                *)
(*   req[r]       the request: path, search text, page parameter           *)
(*   lrw[r]       the loggingResponseWriter and the ResponseWriter it      *)
(*                embeds: the X-Correlation-ID header, lrw.statusCode, the *)
(*                status line sent (0: none yet), the body chunks sent,    *)
(*                and whether the connection refused a write               *)
(*   tplData[r]   the data tpl.Execute was called with                     *)
(*   upstream[r]  the parameters of the GET sent to the Wikipedia API      *)
(*   search[r]    the Search value built by searchHandler                  *)
(*   err[r]       the error the handler returned ("" for nil)              *)
(*   panicVal[r]  the value the handler panicked with ("" for none)        *)
(*   accessLog[r] the "incoming request" entry of the middleware           *)
(*   errLog[r]    the error printed by handlerWithError                    *)
(* xidCounter is xid's process-wide counter.  sv and ret are a Search      *)
(* value and the result of calling one of its methods.                     *)
(***************************************************************************)
VARIABLES pc, req, lrw, tplData, upstream, search, err, panicVal,
          accessLog, errLog, xidCounter, sv, ret

vars == <<pc, req, lrw, tplData, upstream, search, err, panicVal,
          accessLog, errLog, xidCounter, sv, ret>>

\* pageSize := 20
PageSize == 20

\* xid keeps the low 24 bits of its counter in the identifier.
XidCounterMod == 2^24

\* The counter starts from a random value; this one lets it wrap.
XidSeeds == {XidCounterMod - 2}

(***************************************************************************)
(* The pagination model.                                                   *)
(***************************************************************************)
\* A Search; Results keeps the searchinfo.totalhits of the upstream reply.
NoSearch ==
    [built |-> FALSE, Query |-> "", TotalPages |-> GoInt(0),
     NextPage |-> GoInt(0), Results |-> [TotalHits |-> GoInt(0)]]

\* Faulty variant: the comparison is strict.
IsLastPage_Strict(s) == Less(s.TotalPages, s.NextPage)

IsLastPage(s) == ~Less(s.NextPage, s.TotalPages)

\* Faulty variant: the first page is not told apart.
CurrentPage_NoFirstPage(s) == Sub(s.NextPage, GoInt(1))

CurrentPage(s) ==
    IF s.NextPage = GoInt(1) THEN s.NextPage ELSE Sub(s.NextPage, GoInt(1))

PreviousPage(s) == Sub(CurrentPage(s), GoInt(1))

(***************************************************************************)
(* The response writer.                                                    *)
(***************************************************************************)
NewResponse ==
    [header |-> <<>>, statusCode |-> 0, status |-> 0, body |-> <<>>,
     broken |-> FALSE]

\* w.Header().Add("X-Correlation-ID", id): headers go out with the status line.
AddHeader(w, id) == IF w.status = 0 THEN [w EXCEPT !.header = id] ELSE w

\* newLoggingResponseWriter: statusCode defaults to 200.
NewLoggingResponseWriter(w) == [w EXCEPT !.statusCode = 200]

\* lrw.WriteHeader: records the code, then the embedded writer sends the
\* status line unless one was sent already.
WriteHeader(w, code) ==
    [w EXCEPT !.statusCode = code,
              !.status = IF w.status = 0 THEN code ELSE w.status]

\* Write is the embedded writer's: the first call sends status 200 without
\* passing through lrw.WriteHeader.  ok = FALSE: the connection fails.
Write(w, data, ok) ==
    [w EXCEPT !.status = IF w.status = 0 THEN 200 ELSE w.status,
              !.body   = IF ok /\ ~w.broken THEN Append(w.body, data) ELSE w.body,
              !.broken = w.broken \/ ~ok]

\* http.Error and http.NotFound.
Error(w, msg, code) == Write(WriteHeader(w, code), msg, TRUE)

NotFound(w) == Error(w, "404 page not found", 404)

(***************************************************************************)
(* Routing: mux.Handle("/assets/", ...), ("/search", ...), ("/", ...).     *)
(***************************************************************************)
Route(path) ==
    IF Len(path) >= 2 /\ path[1] = "assets" THEN "assets"
    ELSE IF path = <<"assets">> THEN "redirect"
    ELSE IF path = <<"search">> THEN "search"
    ELSE "index"

\* The requests a client sends: query parameters matter to /search only.
Inputs(pages) ==
    {[path |-> p, q |-> "", page |-> <<>>] : p \in Paths \ {<<"search">>}}
    \cup {[path |-> <<"search">>, q |-> "cat", page |-> g] : g \in pages}

NoRequest == [path |-> Root, q |-> "", page |-> <<>>]

NoCall == [called |-> FALSE, srsearch |-> "", srlimit |-> 0, sroffset |-> GoInt(0)]

NoEntry == [logged |-> FALSE, method |-> "", url |-> Root, status_code |-> 0]

(***************************************************************************)
(* The middleware, first half: everything requestLogger does before it     *)
(* calls next.ServeHTTP.                                                   *)
(***************************************************************************)
\* xid.New(): the counter is advanced atomically and becomes the identifier.
XidNew(counter) == (counter + 1) % XidCounterMod

\* ID.String(): the text of the identifier, never empty.
XidString(id) == <<"xid", id>>

\* Faulty variant: the identifier is not put in the response header.
RequestLogger_NoHeader(r, in) ==
    /\ pc[r] = "idle"
    /\ lrw' = [lrw EXCEPT ![r] = NewLoggingResponseWriter(NewResponse)]
    /\ xidCounter' = XidNew(xidCounter)
    /\ req' = [req EXCEPT ![r] = in]
    /\ pc' = [pc EXCEPT ![r] = "handler"]
    /\ UNCHANGED <<tplData, upstream, search, err, panicVal, accessLog, errLog, sv, ret>>

RequestLogger(r, in) ==
    /\ pc[r] = "idle"
    /\ LET correlationID == XidString(XidNew(xidCounter))
       IN  lrw' = [lrw EXCEPT ![r] =
                      NewLoggingResponseWriter(AddHeader(NewResponse, correlationID))]
    /\ xidCounter' = XidNew(xidCounter)
    /\ req' = [req EXCEPT ![r] = in]
    /\ pc' = [pc EXCEPT ![r] = "handler"]
    /\ UNCHANGED <<tplData, upstream, search, err, panicVal, accessLog, errLog, sv, ret>>

(***************************************************************************)
(* The middleware, second half: the deferred function, run as              *)
(* next.ServeHTTP returns (w is the response writer it leaves behind) or   *)
(* panics.  The handler's return and the deferred function are one step    *)
(* of the request's goroutine.                                             *)
(***************************************************************************)
RequestLoggerDeferred(r, w, panicked) ==
    IF panicked
    THEN /\ lrw' = [lrw EXCEPT ![r] = [w EXCEPT !.statusCode = 500]]
         /\ pc' = [pc EXCEPT ![r] = "crashed"]
         /\ UNCHANGED accessLog
    ELSE /\ lrw' = [lrw EXCEPT ![r] = w]
         /\ accessLog' = [accessLog EXCEPT ![r] =
                             [logged |-> TRUE, method |-> "GET",
                              url |-> req[r].path,
                              status_code |-> w.statusCode]]
         /\ pc' = [pc EXCEPT ![r] = "done"]

(***************************************************************************)
(* handlerWithError.ServeHTTP applied to what the handler left behind:     *)
(* res.w is the response writer and res.err the error returned.            *)
(***************************************************************************)
\* Faulty variant: no response is made of the error.
HandlerWithError_NoResponse(res) == res.w

\* The response writer once ServeHTTP is through.
HandlerWithError(res) ==
    IF res.err # "" THEN Error(res.w, res.err, 500) ELSE res.w

\* ServeHTTP of a wrapped handler returns: the error is printed, and the
\* middleware's deferred function runs.
Returned(r, res) ==
    /\ err' = [err EXCEPT ![r] = res.err]
    /\ errLog' = [errLog EXCEPT ![r] = res.err]
    /\ RequestLoggerDeferred(r, HandlerWithError(res), FALSE)

\* buf := &bytes.Buffer{}; tpl.Execute(buf, data); buf.WriteTo(w)
Render(w, renderOK, writeOK) ==
    IF ~renderOK THEN [w |-> w, err |-> "template: execute"]
    ELSE IF ~writeOK THEN [w |-> Write(w, "page", FALSE), err |-> "write: broken pipe"]
    ELSE [w |-> Write(w, "page", TRUE), err |-> ""]

\* Faulty variant: the path is not compared with "/".
IndexHandler_AnyPath(r, renderOK, writeOK) ==
    /\ pc[r] = "handler"
    /\ Route(req[r].path) = "index"
    /\ Returned(r, Render(lrw[r], renderOK, writeOK))
    /\ tplData' = [tplData EXCEPT ![r] = "nil"]
    /\ UNCHANGED <<req, upstream, search, panicVal, xidCounter, sv, ret>>

IndexHandler(r, renderOK, writeOK) ==
    /\ pc[r] = "handler"
    /\ Route(req[r].path) = "index"
    /\ IF req[r].path # Root
       THEN /\ Returned(r, [w |-> NotFound(lrw[r]), err |-> ""])
            /\ UNCHANGED tplData
       ELSE /\ Returned(r, Render(lrw[r], renderOK, writeOK))
            /\ tplData' = [tplData EXCEPT ![r] = "nil"]
    /\ UNCHANGED <<req, upstream, search, panicVal, xidCounter, sv, ret>>

\* pageNum := params.Get("page"); if pageNum == "" { pageNum = "1" }
PageNum(r) == IF req[r].page = <<>> THEN <<"1">> ELSE req[r].page

\* searchHandler up to the call of HTTPClient.Get.
SearchHandlerCall(r, urlOK) ==
    /\ pc[r] = "handler"
    /\ Route(req[r].path) = "search"
    /\ LET nextPage == Atoi(PageNum(r))
           resultsOffset == MulSmall(Sub(nextPage.val, GoInt(1)), PageSize)
       IN  IF ~urlOK
           THEN /\ Returned(r, [w |-> lrw[r], err |-> "parse: invalid URL"])
                /\ UNCHANGED upstream
           ELSE IF nextPage.err # ""
           THEN /\ Returned(r, [w |-> lrw[r], err |-> "strconv.Atoi: " \o nextPage.err])
                /\ UNCHANGED upstream
           ELSE /\ upstream' = [upstream EXCEPT ![r] =
                                   [called |-> TRUE, srsearch |-> req[r].q,
                                    srlimit |-> PageSize, sroffset |-> resultsOffset]]
                /\ pc' = [pc EXCEPT ![r] = "upstream"]
                /\ UNCHANGED <<lrw, err, errLog, accessLog>>
    /\ UNCHANGED <<req, tplData, search, panicVal, xidCounter, sv, ret>>

\* searchWikipedia from the reply on: the error it returns, "" for nil.
SearchWikipedia(reply) ==
    IF reply.kind = "transport" THEN "Get: dial tcp: i/o timeout"
    ELSE IF reply.code # 200 THEN "non 200 OK response from Wikipedia API"
    ELSE IF reply.kind = "json" THEN "invalid character in JSON"
    ELSE ""

\* search := &Search{...}
NewSearch(r, totalHits) ==
    [built      |-> TRUE,
     Query      |-> req[r].q,
     Results    |-> [TotalHits |-> totalHits],
     TotalPages |-> CeilDiv(totalHits, PageSize),
     NextPage   |-> Add(Atoi(PageNum(r)).val, GoInt(1))]

\* searchHandler from the reply of the Wikipedia API on.
SearchHandlerReply(r, reply, renderOK, writeOK) ==
    /\ pc[r] = "upstream"
    /\ IF SearchWikipedia(reply) # ""
       THEN /\ Returned(r, [w |-> lrw[r], err |-> SearchWikipedia(reply)])
            /\ UNCHANGED <<search, tplData>>
       ELSE /\ search' = [search EXCEPT ![r] = NewSearch(r, reply.totalhits)]
            /\ tplData' = [tplData EXCEPT ![r] = "search"]
            /\ Returned(r, Render(lrw[r], renderOK, writeOK))
    /\ UNCHANGED <<req, upstream, panicVal, xidCounter, sv, ret>>

\* http.StripPrefix("/assets/", http.FileServer(http.Dir("assets")))
ServeAssets(r, found) ==
    /\ pc[r] = "handler"
    /\ Route(req[r].path) = "assets"
    /\ RequestLoggerDeferred(r,
          IF found THEN Write(WriteHeader(lrw[r], 200), "asset", TRUE)
          ELSE NotFound(lrw[r]),
          FALSE)
    /\ UNCHANGED <<req, tplData, upstream, search, err, panicVal, errLog,
                   xidCounter, sv, ret>>

\* ServeMux answers "/assets" with a redirect to the registered "/assets/".
MuxRedirect(r) ==
    /\ pc[r] = "handler"
    /\ Route(req[r].path) = "redirect"
    /\ RequestLoggerDeferred(r, Error(lrw[r], "Moved Permanently", 301), FALSE)
    /\ UNCHANGED <<req, tplData, upstream, search, err, panicVal, errLog,
                   xidCounter, sv, ret>>

\* next.ServeHTTP(lrw, r) panics instead of returning.
HandlerPanic(r) ==
    /\ pc[r] \in {"handler", "upstream"}
    /\ panicVal' = [panicVal EXCEPT ![r] = "runtime error"]
    /\ RequestLoggerDeferred(r, lrw[r], TRUE)
    /\ UNCHANGED <<req, tplData, upstream, search, err, errLog, xidCounter, sv, ret>>

(***************************************************************************)
(* Calls of the Search methods on the value sv.                            *)
(***************************************************************************)
NoReturn == [method |-> "", bool |-> FALSE, int |-> GoInt(0)]

CallIsLastPage ==
    /\ ret' = [method |-> "IsLastPage", bool |-> IsLastPage(sv), int |-> GoInt(0)]
    /\ UNCHANGED <<pc, req, lrw, tplData, upstream, search, err, panicVal,
                   accessLog, errLog, xidCounter, sv>>

CallCurrentPage ==
    /\ ret' = [method |-> "CurrentPage", bool |-> FALSE, int |-> CurrentPage(sv)]
    /\ UNCHANGED <<pc, req, lrw, tplData, upstream, search, err, panicVal,
                   accessLog, errLog, xidCounter, sv>>

CallPreviousPage ==
    /\ ret' = [method |-> "PreviousPage", bool |-> FALSE, int |-> PreviousPage(sv)]
    /\ UNCHANGED <<pc, req, lrw, tplData, upstream, search, err, panicVal,
                   accessLog, errLog, xidCounter, sv>>

\* Field values of the Search values the method calls are tried on.
FieldSamples ==
    {GoInt(n) : n \in (0 - 2)..(MaxPage + 1)} \cup {MaxInt, Sub(MaxInt, GoInt(1)),
                                                   MinInt, Add(MinInt, GoInt(1))}

(***************************************************************************)
(* Specifications.                                                         *)
(***************************************************************************)
InitServer ==
    /\ pc = [r \in Requests |-> "idle"]
    /\ req = [r \in Requests |-> NoRequest]
    /\ lrw = [r \in Requests |-> NewResponse]
    /\ tplData = [r \in Requests |-> "unexecuted"]
    /\ upstream = [r \in Requests |-> NoCall]
    /\ search = [r \in Requests |-> NoSearch]
    /\ err = [r \in Requests |-> ""]
    /\ panicVal = [r \in Requests |-> ""]
    /\ accessLog = [r \in Requests |-> NoEntry]
    /\ errLog = [r \in Requests |-> ""]
    /\ ret = NoReturn

\* The server with NumRequests concurrent requests.
Init ==
    /\ InitServer
    /\ xidCounter \in XidSeeds
    /\ sv = NoSearch

Step(r, pages, hits) ==
    \/ \E in \in Inputs(pages) : RequestLogger(r, in)
    \/ \E renderOK, writeOK \in BOOLEAN : IndexHandler(r, renderOK, writeOK)
    \/ \E urlOK \in BOOLEAN : SearchHandlerCall(r, urlOK)
    \/ \E reply \in Replies(hits), renderOK, writeOK \in BOOLEAN :
          SearchHandlerReply(r, reply, renderOK, writeOK)
    \/ \E found \in BOOLEAN : ServeAssets(r, found)
    \/ MuxRedirect(r)
    \/ HandlerPanic(r)

Next == \E r \in Requests : Step(r, SmallPages, SmallHits)

Spec == Init /\ [][Next]_vars

\* One request at a time, over the whole range of page numbers and hit counts.
InitPagination ==
    /\ InitServer
    /\ xidCounter = 0
    /\ sv = NoSearch

NextPagination == Step(1, AllPages, AllHits)

SpecPagination == InitPagination /\ [][NextPagination]_vars

\* The Search methods on arbitrary field values.
InitSearch ==
    /\ InitServer
    /\ xidCounter = 0
    /\ sv \in {[built |-> TRUE, Query |-> "cat", TotalPages |-> t, NextPage |-> n,
                 Results |-> [TotalHits |-> GoInt(0)]] :
                 t \in FieldSamples, n \in FieldSamples}

NextSearch == CallIsLastPage \/ CallCurrentPage \/ CallPreviousPage

SpecSearch == InitSearch /\ [][NextSearch]_vars

(***************************************************************************)
(* Exact arithmetic the properties are stated in.                          *)
(***************************************************************************)
WideOne == Limbs(1, WideLimbs)

\* ceil(h / d) of an int h >= 0, as an exact integer.
ExactCeil(h, d) ==
    LET qr == DivSmall(Wide(h), d)
    IN  IF qr.r > 0 THEN Add(qr.q, WideOne) ELSE qr.q

\* The page number the request asks for.
Page(r) == Atoi(PageNum(r)).val

Positive(a) == ~IsNeg(a) /\ ~IsZero(a)

Finished(r) == pc[r] = "done"

(***************************************************************************)
(* C1: every search whose page parameter parses to p calls the upstream    *)
(* with page size 20 and offset exactly (p-1)*20, and for p >= 1 that      *)
(* offset is not negative.                                                 *)
(***************************************************************************)
C1_OffsetIsPageTimesSize ==
    \A r \in Requests :
        upstream[r].called =>
            /\ upstream[r].srlimit = 20
            /\ Wide(upstream[r].sroffset) = MulSmall(Sub(Wide(Page(r)), WideOne), 20)
            /\ Positive(Page(r)) => ~IsNeg(upstream[r].sroffset)

\* C1 within the range where (p-1)*20 fits an int: for
\* 1 <= p <= MaxInt \div 20 + 1 the offset is exactly (p-1)*20, not negative.
C1_InRange ==
    \A r \in Requests :
        /\ upstream[r].called
        /\ Positive(Page(r))
        /\ Cmp(Page(r), Add(DivSmall(MaxInt, 20).q, GoInt(1))) <= 0
        => /\ upstream[r].srlimit = 20
           /\ Wide(upstream[r].sroffset) = MulSmall(Sub(Wide(Page(r)), WideOne), 20)
           /\ ~IsNeg(upstream[r].sroffset)

(***************************************************************************)
(* C2: for every total hit count h >= 0 the Search built by searchHandler  *)
(* has TotalPages = ceil(h / 20).                                          *)
(***************************************************************************)
C2_TotalPagesIsCeil ==
    \A r \in Requests :
        search[r].built /\ ~IsNeg(search[r].Results.TotalHits) =>
            Wide(search[r].TotalPages) = ExactCeil(search[r].Results.TotalHits, 20)

\* C2 for the hit counts float64 holds exactly: 0 <= h <= 2^53.
C2_InRange ==
    \A r \in Requests :
        /\ search[r].built
        /\ ~IsNeg(search[r].Results.TotalHits)
        /\ Cmp(search[r].Results.TotalHits, TwoTo53) <= 0
        => Wide(search[r].TotalPages) = ExactCeil(search[r].Results.TotalHits, 20)

(***************************************************************************)
(* C3: IsLastPage() returns true if and only if NextPage >= TotalPages.    *)
(***************************************************************************)
C3_IsLastPage ==
    ret.method = "IsLastPage" =>
        (ret.bool <=> ~IsNeg(Sub(Wide(sv.NextPage), Wide(sv.TotalPages))))

C3_Witness ==
    /\ ret.method = "IsLastPage"
    /\ ret.bool
    /\ sv.NextPage = sv.TotalPages
    /\ Positive(sv.NextPage)

(***************************************************************************)
(* C4: CurrentPage() is NextPage when NextPage is 1 and NextPage-1 (in     *)
(* Go's int arithmetic) otherwise; PreviousPage() is CurrentPage()-1.      *)
(* NextPage=1 gives 1 and 0, NextPage=5 gives 4 and 3.                     *)
(***************************************************************************)
C4_CurrentAndPreviousPage ==
    LET minusOne(a) == Narrow(Sub(Wide(a), WideOne))
        current == IF sv.NextPage = GoInt(1) THEN sv.NextPage
                   ELSE minusOne(sv.NextPage)
    IN  /\ ret.method = "CurrentPage" => ret.int = current
        /\ ret.method = "PreviousPage" => ret.int = minusOne(current)
        /\ ret.method = "CurrentPage" /\ sv.NextPage = GoInt(1) => ret.int = GoInt(1)
        /\ ret.method = "PreviousPage" /\ sv.NextPage = GoInt(1) => ret.int = GoInt(0)
        /\ ret.method = "CurrentPage" /\ sv.NextPage = GoInt(5) => ret.int = GoInt(4)
        /\ ret.method = "PreviousPage" /\ sv.NextPage = GoInt(5) => ret.int = GoInt(3)

C4_Witness ==
    /\ ret.method = "PreviousPage"
    /\ sv.NextPage = GoInt(1)
    /\ ret.int = GoInt(0)

(***************************************************************************)
(* C5: a search for page 2 whose upstream reply reports totalhits=50       *)
(* yields TotalPages=3, CurrentPage()=2, NextPage=3, IsLastPage()=false.   *)
(***************************************************************************)
C5_PageTwoOfThree ==
    \A r \in Requests :
        /\ search[r].built
        /\ req[r].page = <<"2">>
        /\ search[r].Results.TotalHits = GoInt(50)
        => /\ search[r].TotalPages = GoInt(3)
           /\ CurrentPage(search[r]) = GoInt(2)
           /\ search[r].NextPage = GoInt(3)
           /\ IsLastPage(search[r]) = FALSE

\* C5 without its last conjunct, and what IsLastPage() returns instead.
C5_ExceptIsLastPage ==
    \A r \in Requests :
        /\ search[r].built
        /\ req[r].page = <<"2">>
        /\ search[r].Results.TotalHits = GoInt(50)
        => /\ search[r].TotalPages = GoInt(3)
           /\ CurrentPage(search[r]) = GoInt(2)
           /\ search[r].NextPage = GoInt(3)
           /\ IsLastPage(search[r]) = TRUE

(***************************************************************************)
(* C6: when a handler wrapped by handlerWithError returns an error         *)
(* (unparsable page, upstream transport failure, upstream non-200 status,  *)
(* malformed upstream JSON, template rendering failure) it stops there,    *)
(* the client receives status 500 with the error text as body, and no      *)
(* result page is written.                                                 *)
(***************************************************************************)
WriteError == "write: broken pipe"

C6_ErrorBecomes500 ==
    \A r \in Requests :
        Finished(r) /\ err[r] \notin {"", WriteError} =>
            /\ lrw[r].status = 500
            /\ lrw[r].statusCode = 500
            /\ lrw[r].body = <<err[r]>>
            /\ errLog[r] = err[r]
            /\ err[r] \in {"strconv.Atoi: syntax", "strconv.Atoi: range",
                           "parse: invalid URL"}
                  => ~upstream[r].called /\ ~search[r].built /\ tplData[r] = "unexecuted"
            /\ err[r] \in {SearchWikipedia(y) : y \in Replies({})}
                  => ~search[r].built /\ tplData[r] = "unexecuted"

C6_Witness ==
    \E r \in Requests :
        /\ pc[r] = "done"
        /\ err[r] = "non 200 OK response from Wikipedia API"
        /\ lrw[r].status = 500
        /\ accessLog[r].status_code = 500

(***************************************************************************)
(* C7: when the wrapped handler panics, the middleware still emits the     *)
(* request log entry, with status code 500, before the panic goes on.      *)
(***************************************************************************)
C7_PanicIsLogged ==
    \A r \in Requests :
        pc[r] = "crashed" =>
            /\ accessLog[r].logged
            /\ accessLog[r].status_code = 500

(***************************************************************************)
(* C8: every response carries a non-empty X-Correlation-ID header, set     *)
(* before the wrapped handler runs, and requests handled concurrently get  *)
(* different identifiers.                                                  *)
(***************************************************************************)
C8_CorrelationID ==
    /\ \A r \in Requests :
          /\ pc[r] # "idle" => Len(lrw[r].header) > 0
          /\ pc[r] = "handler" => lrw[r].status = 0
          /\ lrw[r].status # 0 => Len(lrw[r].header) > 0
    /\ \A r1, r2 \in Requests :
          r1 # r2 /\ pc[r1] # "idle" /\ pc[r2] # "idle"
              => lrw[r1].header # lrw[r2].header

C8_Witness ==
    \E r1, r2 \in Requests :
        /\ r1 # r2
        /\ pc[r1] = "upstream"
        /\ pc[r2] = "done"
        /\ lrw[r2].status = 404
        /\ Len(lrw[r2].header) > 0
        /\ lrw[r1].header # lrw[r2].header
        /\ xidCounter = 0

(***************************************************************************)
(* C9: indexHandler answers every path other than "/" with 404 and never   *)
(* renders the template for it; "/" renders the template with no data and  *)
(* is answered with 200.                                                   *)
(***************************************************************************)
C9_IndexHandler ==
    \A r \in Requests :
        Finished(r) /\ Route(req[r].path) = "index" =>
            /\ req[r].path # Root =>
                  /\ lrw[r].status = 404
                  /\ lrw[r].statusCode = 404
                  /\ tplData[r] = "unexecuted"
                  /\ lrw[r].body = <<"404 page not found">>
            /\ req[r].path = Root => tplData[r] = "nil"
            /\ req[r].path = Root /\ err[r] = "" =>
                  /\ lrw[r].status = 200
                  /\ lrw[r].statusCode = 200
                  /\ lrw[r].body = <<"page">>

C9_Witness ==
    \E r \in Requests :
        /\ pc[r] = "done"
        /\ req[r].path = Root
        /\ tplData[r] = "nil"
        /\ lrw[r].status = 200
        /\ accessLog[r].status_code = 200

(***************************************************************************)
(* C10: for a successful search of page p >= 1 with T >= 1 pages in all,   *)
(* IsLastPage() is true exactly when p >= T.                               *)
(***************************************************************************)
C10_IsLastPageMeansNoLaterPage ==
    \A r \in Requests :
        /\ search[r].built
        /\ err[r] = ""
        /\ Finished(r)
        /\ Positive(Page(r))
        /\ Positive(search[r].TotalPages)
        => (IsLastPage(search[r]) <=> ~Less(Page(r), search[r].TotalPages))

=============================================================================
